---------------------------- MODULE Spec2Model ----------------------------
(***************************************************************************)
(* A model of the result-value pretty-printer of edgedb-cli                *)
(* (src/print/native.rs): the scalar text functions format_string,         *)
(* format_bytes, format_bigint and format_decimal, and the recursive walk  *)
(* FormatExt::format over a Value tree that drives a Formatter backend.    *)
(*                                                                         *)
(* Text is a sequence of code points (39 is ', 92 is \, 48..57 are the     *)
(* digits, 45 is -, 46 is ., 101 is e, 110 is n, 120 is x, 117 is u).      *)
(***************************************************************************)
EXTENDS Integers, Sequences, FiniteSets, TLC

VARIABLES
    arg,    \* the argument of the scalar text function under call
    ret,    \* the text it returned, <<>> while it has not been called
    root,                 \* the Option<Value> under render: <<>> is None, <<v>> is Some(v)
    max_items,            \* Formatter::max_items(): <<>> is None, <<c>> is Some(c)
    expand_strings,       \* Formatter::expand_strings()
    implicit_properties,  \* Formatter::implicit_properties()
    stack,                \* the active format() calls, innermost last
    calls,                \* the Formatter calls the walk has made, in order
    result,               \* what the outermost format() returned
    first,                \* the Formatter calls of an earlier render of root, <<>> if none
    options,    \* the SelfInstall flags the installer was started with
    host,       \* what the installer finds: platform, user, PATH, project directory
    settings,   \* Settings, as far as the installer's questions change it
    step,       \* where main / _main stands
    prompts     \* the questions put to the user so far, in order

fmtvars == <<arg, ret>>
walkvars ==
    <<root, max_items, expand_strings, implicit_properties, stack, calls, result, first>>
installvars == <<options, host, settings, step, prompts>>
vars ==
    <<arg, ret, root, max_items, expand_strings, implicit_properties, stack, calls, result,
      first, options, host, settings, step, prompts>>

---------------------------------------------------------------------------
(* Bounds of the checked inputs.                                           *)

\* BigInt inputs are m * 10^k with |m| <= MaxMant and k <= MaxZeros
MaxMant == 123
MaxZeros == 7
\* BigDecimal inputs carry a scale in -MaxNegScale..MaxScale
MaxScale == 8
MaxNegScale == 2
\* str inputs have at most MaxStrLen characters
MaxStrLen == 4
\* byte strings of more than one byte have at most MaxBytesLen bytes
MaxBytesLen == 2
\* the installer's menu and PATH questions are asked at most MaxPrompts times
MaxPrompts == 3
\* collections hold at most MaxItems elements
MaxItems == 2
\* max_items() answers None or Some(c) with c <= MaxCap
MaxCap == 2
\* objects and named tuples have at most MaxFields field descriptors
MaxFields == 2

---------------------------------------------------------------------------
(* Helpers of the text model: what the std and library calls do.           *)

RECURSIVE Pow10(_)
Pow10(k) == IF k = 0 THEN 1 ELSE 10 * Pow10(k - 1)

\* "0".repeat(n)
RECURSIVE Repeat0(_)
Repeat0(n) == IF n <= 0 THEN <<>> ELSE <<48>> \o Repeat0(n - 1)

\* base-10 digits of a natural number, most significant first
RECURSIVE NatToStr(_)
NatToStr(n) == IF n < 10 THEN <<48 + n>> ELSE NatToStr(n \div 10) \o <<48 + (n % 10)>>

\* BigInt::to_string / usize Display: a minus sign and the base-10 digits
IntToStr(i) == IF i < 0 THEN <<45>> \o NatToStr(-i) ELSE NatToStr(i)

\* str::trim_end_matches(c)
RECURSIVE trim_end_matches(_, _)
trim_end_matches(s, c) ==
    IF s # <<>> /\ s[Len(s)] = c THEN trim_end_matches(SubSeq(s, 1, Len(s) - 1), c) ELSE s

\* str::trim_start_matches(c)
RECURSIVE trim_start_matches(_, _)
trim_start_matches(s, c) ==
    IF s # <<>> /\ s[1] = c THEN trim_start_matches(Tail(s), c) ELSE s

\* str::starts_with(p)
starts_with(s, p) == Len(s) >= Len(p) /\ SubSeq(s, 1, Len(p)) = p

\* str::contains(c)
contains(s, c) == \E i \in 1..Len(s) : s[i] = c

\* one lowercase hexadecimal digit
HexDigit(d) == IF d < 10 THEN 48 + d ELSE 87 + d

\* format!("{:x}", n)
RECURSIVE HexStr(_)
HexStr(n) == IF n < 16 THEN <<HexDigit(n)>> ELSE HexStr(n \div 16) \o <<HexDigit(n % 16)>>

\* format!("{:0wx}", n): zero-padded to at least w digits
HexPad(n, w) == Repeat0(w - Len(HexStr(n))) \o HexStr(n)

\* BigDecimal's Display (plain notation): the digits of |int_val| with the
\* decimal point `scale` places from the right, zero-filled on either side
BigDecimalToString(d) ==
    LET abs_int == NatToStr(IF d.int_val < 0 THEN -d.int_val ELSE d.int_val)
        n == Len(abs_int)
        before == IF d.scale >= n THEN <<48>>
                  ELSE IF d.scale < 0 THEN abs_int \o Repeat0(-d.scale)
                  ELSE SubSeq(abs_int, 1, n - d.scale)
        after == IF d.scale >= n THEN Repeat0(d.scale - n) \o abs_int
                 ELSE IF d.scale < 0 THEN <<>>
                 ELSE SubSeq(abs_int, n - d.scale + 1, n)
        unsigned == IF after # <<>> THEN before \o <<46>> \o after ELSE before
    IN  IF d.int_val < 0 THEN <<45>> \o unsigned ELSE unsigned

---------------------------------------------------------------------------
(* format_string                                                           *)

EscapeCharNoBackslash(c, expanded) ==
    CASE (c \in 0..8) \/ c = 11 \/ c = 12 \/ (c \in 14..31) \/ c = 127
            -> <<92, 120>> \o HexPad(c, 2)
      [] c \in 128..159 -> <<92, 117>> \o HexPad(c, 4)
      [] c = 39 -> <<92, 39>>
      [] c = 13 /\ ~expanded -> <<92, 114>>
      [] c = 10 /\ ~expanded -> <<92, 110>>
      [] c = 9 /\ ~expanded -> <<92, 116>>
      [] OTHER -> <<c>>

\* the match of format_string: what one char appends to buf
EscapeChar(c, expanded) ==
    CASE (c \in 0..8) \/ c = 11 \/ c = 12 \/ (c \in 14..31) \/ c = 127
            -> <<92, 120>> \o HexPad(c, 2)
      [] c \in 128..159 -> <<92, 117>> \o HexPad(c, 4)
      [] c = 39 -> <<92, 39>>
      [] c = 92 -> <<92, 92>>
      [] c = 13 /\ ~expanded -> <<92, 114>>
      [] c = 10 /\ ~expanded -> <<92, 110>>
      [] c = 9 /\ ~expanded -> <<92, 116>>
      [] OTHER -> <<c>>

\* the loop of format_string over s.chars()
RECURSIVE StringBody(_, _)
StringBody(s, expanded) ==
    IF s = <<>> THEN <<>> ELSE EscapeChar(Head(s), expanded) \o StringBody(Tail(s), expanded)

format_string(s, expanded) == <<39>> \o StringBody(s, expanded) \o <<39>>

---------------------------------------------------------------------------
(* format_bytes                                                            *)

EscapeByteDelPassthrough(b) ==
    CASE (b \in 0..8) \/ b = 11 \/ b = 12 \/ (b \in 14..31) \/ (b \in 128..255)
            -> <<92, 120>> \o HexPad(b, 2)
      [] b = 39 -> <<92, 39>>
      [] b = 13 -> <<92, 114>>
      [] b = 10 -> <<92, 110>>
      [] b = 9 -> <<92, 116>>
      [] b = 92 -> <<92, 92>>
      [] OTHER -> <<b>>

\* the match of format_bytes: what one byte appends to buf
EscapeByte(b) ==
    CASE (b \in 0..8) \/ b = 11 \/ b = 12 \/ (b \in 14..31) \/ (b \in 127..255)
            -> <<92, 120>> \o HexPad(b, 2)
      [] b = 39 -> <<92, 39>>
      [] b = 13 -> <<92, 114>>
      [] b = 10 -> <<92, 110>>
      [] b = 9 -> <<92, 116>>
      [] b = 92 -> <<92, 92>>
      [] OTHER -> <<b>>

\* the loop of format_bytes over the bytes
RECURSIVE BytesBody(_)
BytesBody(bytes) ==
    IF bytes = <<>> THEN <<>> ELSE EscapeByte(Head(bytes)) \o BytesBody(Tail(bytes))

format_bytes(bytes) == <<98, 39>> \o BytesBody(bytes) \o <<39>>

---------------------------------------------------------------------------
(* format_bigint                                                           *)

format_bigint_ge5(bint) ==
    LET txt == IntToStr(bint)
        no_zeros == trim_end_matches(txt, 48)
        zeros == Len(txt) - Len(no_zeros)
    IN  IF zeros >= 5
        THEN no_zeros \o <<101>> \o NatToStr(zeros) \o <<110>>
        ELSE txt \o <<110>>

format_bigint(bint) ==
    LET txt == IntToStr(bint)
        no_zeros == trim_end_matches(txt, 48)
        zeros == Len(txt) - Len(no_zeros)
    IN  IF zeros > 5
        THEN no_zeros \o <<101>> \o NatToStr(zeros) \o <<110>>
        ELSE txt \o <<110>>

---------------------------------------------------------------------------
(* format_decimal                                                          *)

\* the zero count taken over the whole text instead of the text after "0."
format_decimal_count_prefix(value) ==
    LET txt == BigDecimalToString(value)
    IN  IF contains(txt, 46)
        THEN IF starts_with(txt, <<48, 46, 48, 48, 48, 48, 48>>)
             THEN LET no_zeros == trim_start_matches(SubSeq(txt, 3, Len(txt)), 48)
                      zeros == Len(txt) - Len(no_zeros)
                  IN  <<48, 46>> \o no_zeros \o <<101, 45>> \o NatToStr(zeros)
             ELSE txt \o <<110>>
        ELSE LET no_zeros == trim_end_matches(txt, 48)
                 zeros == Len(txt) - Len(no_zeros)
             IN  IF zeros > 5
                 THEN no_zeros \o <<46, 48, 101>> \o NatToStr(zeros) \o <<110>>
                 ELSE txt \o <<46, 48, 110>>

\* the integral branch compressing from five zeros on
format_decimal_ge5(value) ==
    LET txt == BigDecimalToString(value)
    IN  IF contains(txt, 46)
        THEN IF starts_with(txt, <<48, 46, 48, 48, 48, 48, 48>>)
             THEN LET no_zeros == trim_start_matches(SubSeq(txt, 3, Len(txt)), 48)
                      zeros == Len(txt) - 2 - Len(no_zeros)
                  IN  <<48, 46>> \o no_zeros \o <<101, 45>> \o NatToStr(zeros)
             ELSE txt \o <<110>>
        ELSE LET no_zeros == trim_end_matches(txt, 48)
                 zeros == Len(txt) - Len(no_zeros)
             IN  IF zeros >= 5
                 THEN no_zeros \o <<46, 48, 101>> \o NatToStr(zeros) \o <<110>>
                 ELSE txt \o <<46, 48, 110>>

format_decimal(value) ==
    LET txt == BigDecimalToString(value)
    IN  IF contains(txt, 46)
        THEN IF starts_with(txt, <<48, 46, 48, 48, 48, 48, 48>>)
             THEN LET no_zeros == trim_start_matches(SubSeq(txt, 3, Len(txt)), 48)
                      zeros == Len(txt) - 2 - Len(no_zeros)
                  IN  <<48, 46>> \o no_zeros \o <<101, 45>> \o NatToStr(zeros)
             ELSE txt \o <<110>>
        ELSE LET no_zeros == trim_end_matches(txt, 48)
                 zeros == Len(txt) - Len(no_zeros)
             IN  IF zeros > 5
                 THEN no_zeros \o <<46, 48, 101>> \o NatToStr(zeros) \o <<110>>
                 ELSE txt \o <<46, 48, 110>>

---------------------------------------------------------------------------
(* The inputs of the scalar text functions.                                *)

\* integers m * 10^k within the 32-bit integers of TLC
BigIntInputs ==
    UNION { { m * Pow10(k) : m \in { x \in -MaxMant..MaxMant :
                                       /\ x <= 2147483647 \div Pow10(k)
                                       /\ -x <= 2147483647 \div Pow10(k) } }
            : k \in 0..MaxZeros }

DecimalInputs ==
    { d \in [int_val : BigIntInputs, scale : -MaxNegScale..MaxScale] :
        d.scale < 0 =>
            /\ d.int_val <= 2147483647 \div Pow10(-d.scale)
            /\ -d.int_val <= 2147483647 \div Pow10(-d.scale) }

\* the characters of the longer str inputs: the control character 0x01, the
\* backslash, and the letters and digits its escape sequence is written with
StrAlphabet == {1, 92, 120, 48, 49}

\* the characters of the shorter str inputs: also TAB, LF, CR, the apostrophe,
\* the letter n, DEL and the C1 control character 0x80
StrAlphabetWide == StrAlphabet \cup {9, 10, 13, 39, 110, 127, 128}

StrInputs ==
    UNION { [1..n -> StrAlphabet] : n \in 0..MaxStrLen }
        \cup UNION { [1..n -> StrAlphabetWide] : n \in 0..(MaxStrLen - 2) }

\* the bytes of the longer byte strings: the ends of every range of the match
ByteSample == {0, 7, 8, 9, 10, 11, 12, 13, 14, 31, 32, 39, 92, 126, 127, 128, 255}

BytesInputs ==
    {<<>>} \cup { <<b>> : b \in 0..255 }
           \cup UNION { [1..n -> ByteSample] : n \in 2..MaxBytesLen }

---------------------------------------------------------------------------
(* The scalar text functions as a state machine: one call per behaviour.   *)

\* no render is under way
WalkIdle ==
    /\ root = <<>> /\ max_items = <<>>
    /\ expand_strings = FALSE /\ implicit_properties = FALSE
    /\ stack = <<>> /\ calls = <<>>
    /\ result = [state |-> "idle", err |-> 0]
    /\ first = <<>>

\* the installer is not running
InstallIdle ==
    /\ options = [nightly |-> FALSE, verbose |-> FALSE, quiet |-> FALSE,
                  no_confirm |-> FALSE, no_modify_path |-> FALSE,
                  no_wait_for_exit_prompt |-> FALSE]
    /\ host = [windows |-> FALSE, uid |-> 1000, should_modify_path |-> FALSE,
               project |-> "none"]
    /\ settings = [modify_path |-> FALSE]
    /\ step = "idle"
    /\ prompts = <<>>

InitFmt ==
    /\ WalkIdle
    /\ InstallIdle
    /\ ret = <<>>
    /\ \/ \E n \in BigIntInputs : arg = [fn |-> "format_bigint", bint |-> n]
       \/ \E d \in DecimalInputs : arg = [fn |-> "format_decimal", value |-> d]
       \/ \E s \in StrInputs, e \in BOOLEAN :
              arg = [fn |-> "format_string", s |-> s, expanded |-> e]
       \/ \E b \in BytesInputs : arg = [fn |-> "format_bytes", bytes |-> b]

CallFormatBigint ==
    /\ arg.fn = "format_bigint" /\ ret = <<>>
    /\ ret' = format_bigint(arg.bint)
    /\ UNCHANGED <<arg, walkvars, installvars>>

CallFormatDecimal ==
    /\ arg.fn = "format_decimal" /\ ret = <<>>
    /\ ret' = format_decimal(arg.value)
    /\ UNCHANGED <<arg, walkvars, installvars>>

CallFormatString ==
    /\ arg.fn = "format_string" /\ ret = <<>>
    /\ ret' = format_string(arg.s, arg.expanded)
    /\ UNCHANGED <<arg, walkvars, installvars>>

CallFormatBytes ==
    /\ arg.fn = "format_bytes" /\ ret = <<>>
    /\ ret' = format_bytes(arg.bytes)
    /\ UNCHANGED <<arg, walkvars, installvars>>

NextFmt ==
    \/ CallFormatBigint
    \/ CallFormatDecimal
    \/ CallFormatString
    \/ CallFormatBytes

SpecFmt == InitFmt /\ [][NextFmt]_vars

---------------------------------------------------------------------------
(* Properties of the scalar text functions, checked under SpecFmt.         *)

\* the number of times 10 divides n
RECURSIVE TrailingZeros(_)
TrailingZeros(n) == IF n # 0 /\ n % 10 = 0 THEN 1 + TrailingZeros(n \div 10) ELSE 0

\* the literal of an integer v whose text is `zeroText` when v is 0: the
\* digits with the k trailing zeros cut and `mark`, e, k, n when k > 5, and
\* the whole text with `mark`, n otherwise
CompressedInt(v, zeroText, mark) ==
    LET k == IF v = 0 THEN Len(zeroText) ELSE TrailingZeros(v)
        text == IF v = 0 THEN zeroText ELSE IntToStr(v)
        cut == IF v = 0 THEN <<>> ELSE IntToStr(v \div Pow10(k))
    IN  IF k > 5
        THEN cut \o mark \o <<101>> \o NatToStr(k) \o <<110>>
        ELSE text \o mark \o <<110>>

BigintReturned == arg.fn = "format_bigint" /\ ret # <<>>

\* C6: format_bigint of an integer whose base-10 text ends in k zeros returns
\* the text without them followed by e, k, n when k > 5 and the full text
\* followed by n when k <= 5, for zero and negative integers too;
\* 1230000000 gives 123e7n and 100000 gives 100000n.
C6_BigintLiteral ==
    BigintReturned =>
        /\ ret = CompressedInt(arg.bint, <<48>>, <<>>)
        /\ arg.bint = 1230000000 => ret = <<49, 50, 51, 101, 55, 110>>
        /\ arg.bint = 100000 => ret = <<49, 48, 48, 48, 48, 48, 110>>

C6_Witness ==
    /\ BigintReturned
    /\ arg.bint = -1230000000
    /\ ret = <<45, 49, 50, 51, 101, 55, 110>>

DecimalReturned == arg.fn = "format_decimal" /\ ret # <<>>

\* the decimal's text has a fractional separator
Fractional(d) == contains(BigDecimalToString(d), 46)

\* 0 <= d < 0.00001 with the scale at least 5: five or more zeros follow "0."
FiveLeadingZeros(d) ==
    d.int_val >= 0 /\ d.scale >= 5 /\ d.int_val < Pow10(d.scale - 5)

\* C7: format_decimal of a decimal with a fractional text returns, when the
\* text begins with 0.00000, "0." then the fractional digits without their
\* leading zeros then "e-" and the number of zeros cut, and the text followed
\* by n in every other case; 0.0000001 gives 0.1e-6 and 10.5 gives 10.5n.
C7_FractionalDecimal ==
    (DecimalReturned /\ Fractional(arg.value)) =>
        LET d == arg.value
            digits == IF d.int_val = 0 THEN <<>> ELSE NatToStr(d.int_val)
        IN  /\ FiveLeadingZeros(d) <=>
                 starts_with(BigDecimalToString(d), <<48, 46, 48, 48, 48, 48, 48>>)
            /\ FiveLeadingZeros(d) =>
                 ret = <<48, 46>> \o digits \o <<101, 45>>
                           \o NatToStr(d.scale - Len(digits))
            /\ ~FiveLeadingZeros(d) => ret = BigDecimalToString(d) \o <<110>>
            /\ d = [int_val |-> 1, scale |-> 7] => ret = <<48, 46, 49, 101, 45, 54>>
            /\ d = [int_val |-> 105, scale |-> 1] => ret = <<49, 48, 46, 53, 110>>

C7_Witness ==
    /\ DecimalReturned
    /\ arg.value = [int_val |-> 1, scale |-> 7]
    /\ BigDecimalToString(arg.value) = <<48, 46, 48, 48, 48, 48, 48, 48, 49>>
    /\ ret = <<48, 46, 49, 101, 45, 54>>

\* C8: format_decimal of an integral decimal whose text ends in k zeros
\* returns the text without them followed by .0e, k, n when k > 5 and the
\* text followed by .0n when k <= 5; 1000000 gives 1.0e6n, 100 gives 100.0n.
C8_IntegralDecimal ==
    (DecimalReturned /\ ~Fractional(arg.value)) =>
        LET d == arg.value
        IN  /\ d.scale <= 0
            /\ ret = CompressedInt(d.int_val * Pow10(-d.scale),
                                   Repeat0(1 - d.scale), <<46, 48>>)
            /\ d = [int_val |-> 1000000, scale |-> 0]
                 => ret = <<49, 46, 48, 101, 54, 110>>
            /\ d = [int_val |-> 100, scale |-> 0]
                 => ret = <<49, 48, 48, 46, 48, 110>>

C8_Witness ==
    /\ DecimalReturned
    /\ arg.value = [int_val |-> 1000000, scale |-> 0]
    /\ ret = <<49, 46, 48, 101, 54, 110>>

\* every checked input paired with the text format_string returns for it
FormatStringPairs ==
    [e \in BOOLEAN |-> { <<s, format_string(s, e)>> : s \in StrInputs }]

\* the pairs by the length of the returned text
PairsByTextLen ==
    [e \in BOOLEAN |->
        [n \in 0..(6 * MaxStrLen + 2) |->
            { p \in FormatStringPairs[e] : Len(p[2]) = n }]]

StringReturned == arg.fn = "format_string" /\ ret # <<>>

\* C9: for either value of `expanded`, what format_string returns starts and
\* ends with a single quote, and no other input string gives the same text.
C9_QuotedInjective ==
    StringReturned =>
        /\ Len(ret) >= 2 /\ ret[1] = 39 /\ ret[Len(ret)] = 39
        /\ Len(ret) <= 6 * MaxStrLen + 2
        /\ \A p \in PairsByTextLen[arg.expanded][Len(ret)] :
               p[2] = ret => p[1] = arg.s

\* the four characters \x01 are told from the control character 0x01
C9_Witness ==
    /\ StringReturned
    /\ arg.s = <<92, 120, 48, 49>>
    /\ ret = <<39, 92, 92, 120, 48, 49, 39>>
    /\ <<<<1>>, <<39, 92, 120, 48, 49, 39>>>> \in FormatStringPairs[arg.expanded]

\* the digits of {:x}
HexChars == <<48, 49, 50, 51, 52, 53, 54, 55, 56, 57, 97, 98, 99, 100, 101, 102>>

\* the encoding of one byte, by its class
ByteEncoding(b) ==
    IF b \in (0..8) \cup {11, 12} \cup (14..31) \cup (127..255)
    THEN <<92, 120, HexChars[(b \div 16) + 1], HexChars[(b % 16) + 1]>>
    ELSE IF b = 39 THEN <<92, 39>>
    ELSE IF b = 13 THEN <<92, 114>>
    ELSE IF b = 10 THEN <<92, 110>>
    ELSE IF b = 9 THEN <<92, 116>>
    ELSE IF b = 92 THEN <<92, 92>>
    ELSE <<b>>

RECURSIVE BytesEncoding(_)
BytesEncoding(bytes) ==
    IF bytes = <<>> THEN <<>>
    ELSE BytesEncoding(SubSeq(bytes, 1, Len(bytes) - 1)) \o ByteEncoding(bytes[Len(bytes)])

BytesReturned == arg.fn = "format_bytes" /\ ret # <<>>

\* C10: format_bytes returns b' then the encoding of each byte then ': the
\* bytes 0x00-0x08, 0x0B, 0x0C, 0x0E-0x1F and 0x7F-0xFF as \x and two
\* lowercase hex digits, the apostrophe as \', CR, LF, TAB and the backslash
\* as \r, \n, \t and \\, every other byte as itself; so the text holds
\* printable ASCII only.
C10_BytesLiteral ==
    BytesReturned =>
        /\ ret = <<98, 39>> \o BytesEncoding(arg.bytes) \o <<39>>
        /\ \A i \in 1..Len(ret) : ret[i] \in 32..126
        /\ arg.bytes = <<7>> => ret = <<98, 39, 92, 120, 48, 55, 39>>
        /\ arg.bytes = <<39>> => ret = <<98, 39, 92, 39, 39>>

C10_Witness ==
    /\ BytesReturned
    /\ arg.bytes = <<127, 39>>
    /\ ret = <<98, 39, 92, 120, 55, 102, 92, 39, 39>>

\* the first place of c in s, 0 if there is none
IndexOf(s, c) ==
    IF contains(s, c)
    THEN CHOOSE i \in 1..Len(s) : s[i] = c /\ \A j \in 1..(i - 1) : s[j] # c
    ELSE 0

\* the number a text of decimal digits stands for; the empty text stands for 0
RECURSIVE DigitsValue(_)
DigitsValue(s) ==
    IF s = <<>> THEN 0
    ELSE 10 * DigitsValue(SubSeq(s, 1, Len(s) - 1)) + (s[Len(s)] - 48)

\* a text of an optional minus sign and decimal digits, as an integer
SignedValue(s) ==
    IF s # <<>> /\ s[1] = 45 THEN -DigitsValue(Tail(s)) ELSE DigitsValue(s)

\* the number m * 10^e as the pair <<m, e>> with no factor 10 left in m
Normal(m, e) ==
    IF m = 0 THEN <<0, 0>>
    ELSE <<m \div Pow10(TrailingZeros(m)), e + TrailingZeros(m)>>

\* the number a literal <mantissa>e<exponent>, with or without the suffix n,
\* denotes: the mantissa without its point, times ten to the exponent less
\* the number of digits after the point
LiteralValue(text) ==
    LET body == IF text[Len(text)] = 110 THEN SubSeq(text, 1, Len(text) - 1) ELSE text
        e == IndexOf(body, 101)
        mantissa == SubSeq(body, 1, e - 1)
        exponent == SignedValue(SubSeq(body, e + 1, Len(body)))
        point == IndexOf(mantissa, 46)
        whole == IF point = 0 THEN mantissa ELSE SubSeq(mantissa, 1, point - 1)
        fraction == IF point = 0 THEN <<>> ELSE SubSeq(mantissa, point + 1, Len(mantissa))
    IN  Normal(SignedValue(whole \o fraction), exponent - Len(fraction))

\* the number handed to format_bigint or format_decimal
InputValue ==
    IF arg.fn = "format_bigint" THEN Normal(arg.bint, 0)
    ELSE Normal(arg.value.int_val, -arg.value.scale)

\* the text returned has an exponent
ExponentReturned == (BigintReturned \/ DecimalReturned) /\ contains(ret, 101)

\* C16: whenever format_bigint or format_decimal returns a form with an
\* exponent (<m>e<k>n, <m>.0e<k>n or 0.<d>e-<k>), the mantissa times ten to
\* the signed exponent is exactly the number that was formatted.
C16_ExponentPreservesValue ==
    ExponentReturned =>
        /\ ret[IndexOf(ret, 101) + 1] = 45 <=>
              (DecimalReturned /\ Fractional(arg.value))
        /\ LiteralValue(ret) = InputValue

\* 0.00000123 is returned as 0.123e-5, which is 123 * 10^-8
C16_Witness ==
    /\ DecimalReturned
    /\ arg.value = [int_val |-> 123, scale |-> 8]
    /\ ret = <<48, 46, 49, 50, 51, 101, 45, 53>>
    /\ LiteralValue(ret) = <<123, -8>>
    /\ InputValue = <<123, -8>>

---------------------------------------------------------------------------
(* The Value model: a tagged record per variant.  An Option is a sequence  *)
(* of at most one element.                                                 *)

Scalar(tag, v) == [tag |-> tag, v |-> v]
Coll(tag, items) == [tag |-> tag, items |-> items]
Shaped(tag, elements, fields) ==
    [tag |-> tag, shape |-> [elements |-> elements], fields |-> fields]
ShapeElement(name, implicit, link) ==
    [name |-> name, flag_implicit |-> implicit, flag_link_property |-> link]

\* the variants rendered with const_scalar and with typed
ConstScalarTags ==
    {"Nothing", "Uuid", "Str", "Bytes", "Int16", "Int32", "Int64", "Float32",
     "Float64", "BigInt", "Decimal", "Bool", "Json", "Enum"}
TypedTags == {"Datetime", "LocalDatetime", "LocalDate", "LocalTime", "Duration"}
SeqTags == {"Set", "Array", "Tuple"}
ShapedTags == {"Object", "NamedTuple"}

\* the argument of const_scalar for a scalar variant; a value the backend
\* prints itself is passed on as it is
ScalarText(v, expanded) ==
    CASE v.tag = "Nothing" -> "Nothing"
      [] v.tag = "Str" -> format_string(v.v, expanded)
      [] v.tag = "Bytes" -> format_bytes(v.v)
      [] v.tag = "BigInt" -> format_bigint(v.v[1])
      [] v.tag = "Decimal" -> format_decimal([int_val |-> v.v[1], scale |-> v.v[2]])
      [] v.tag = "Json" -> <<"{:?}", v.v>>
      [] OTHER -> v.v

\* the type tag and the text of typed for a temporal variant
TypedName(v) ==
    CASE v.tag = "Datetime" -> "datetime"
      [] v.tag = "LocalDatetime" -> "cal::local_datetime"
      [] v.tag = "LocalDate" -> "cal::local_date"
      [] v.tag = "LocalTime" -> "cal::local_time"
      [] v.tag = "Duration" -> "duration"
TypedText(v) == IF v.tag = "Duration" THEN <<"{}", v.v>> ELSE <<"{:?}", v.v>>

\* the Formatter method that opens a container variant
ContainerOp(v) ==
    CASE v.tag = "Set" -> "set"
      [] v.tag = "Object" -> "object"
      [] v.tag = "Tuple" -> "tuple"
      [] v.tag = "NamedTuple" -> "named_tuple"
      [] v.tag = "Array" -> "array"

Min(a, b) == IF a < b THEN a ELSE b

\* every element is rendered whatever max_items() answers
ItemBoundNoLimit(limit, len) == len

\* the cap as a budget of the process, used up by an earlier render
ItemBoundSpent(limit, len) ==
    IF limit # <<>> THEN Min(IF first = <<>> THEN limit[1] ELSE 0, len) ELSE len

\* how many items the loop of a Set or Array body renders
ItemBound(limit, len) == IF limit # <<>> THEN Min(limit[1], len) ELSE len

\* whether a Set or Array body ends with ellipsis()
NeedsEllipsis(limit, len) == limit # <<>> /\ len > limit[1]

\* the cap applied to every sequence body, tuples too
SeqBoundCapAll(v, limit) == ItemBound(limit, Len(v.items))

\* how many items the loop of a Set, Array or Tuple body renders
SeqBound(v, limit) ==
    IF v.tag = "Tuple" THEN Len(v.items) ELSE ItemBound(limit, Len(v.items))

\* shape.elements.iter().zip(fields): the number of pairs
ZipLen(v) == Min(Len(v.shape.elements), Len(v.fields))

\* the fallback looked up among implicit fields of any name
FindIdAnyImplicit(v) ==
    IF \E i \in 1..ZipLen(v) : v.shape.elements[i].flag_implicit
    THEN CHOOSE i \in 1..ZipLen(v) :
            /\ v.shape.elements[i].flag_implicit
            /\ \A j \in 1..(i - 1) : ~v.shape.elements[j].flag_implicit
    ELSE 0

\* .find(|(f, _)| f.name == "id"): the first pair whose field is named id, or 0
FindId(v) ==
    IF \E i \in 1..ZipLen(v) : v.shape.elements[i].name = "id"
    THEN CHOOSE i \in 1..ZipLen(v) :
            /\ v.shape.elements[i].name = "id"
            /\ \A j \in 1..(i - 1) : v.shape.elements[j].name # "id"
    ELSE 0

\* the type name handed to object(): the first pair whose field is named
\* __tname__, and its value when that is Some(Str)
TypeName(v) ==
    IF \E i \in 1..ZipLen(v) : v.shape.elements[i].name = "__tname__"
    THEN LET i == CHOOSE i \in 1..ZipLen(v) :
                    /\ v.shape.elements[i].name = "__tname__"
                    /\ \A j \in 1..(i - 1) : v.shape.elements[j].name # "__tname__"
             f == v.fields[i]
         IN  IF f # <<>> /\ f[1].tag = "Str" THEN <<f[1].v>> ELSE <<>>
    ELSE <<>>

\* implicit fields skipped whatever implicit_properties() answers
FieldRenderedExplicitOnly(fld, implicit) == ~fld.flag_implicit

\* whether the main pass of an Object body renders the field
FieldRendered(fld, implicit) == ~fld.flag_implicit \/ implicit

\* the styled label handed to object_field in the main pass
FieldLabel(fld) ==
    IF fld.flag_link_property
    THEN [text |-> "@" \o fld.name, style |-> "rgb(0, 0xa5, 0xcb).bold"]
    ELSE [text |-> fld.name, style |-> "light_blue.bold"]

\* the styled label handed to object_field for the id fallback
IdLabel(fld) == [text |-> fld.name, style |-> "light_blue.bold"]

---------------------------------------------------------------------------
(* The rendered values.                                                    *)

\* a scalar's payload is the sequence of numbers that stands for it: the
\* code points of a str, the bytes, <<n>> for an integer, <<int_val, scale>>
\* for a decimal, and a stand-in number for a value the backend prints itself
LeafVal == Scalar("Int64", <<7>>)

\* one value of every scalar variant
ScalarVals ==
    {Scalar("Nothing", <<>>), Scalar("Uuid", <<16>>), Scalar("Str", <<97, 10, 39>>),
     Scalar("Bytes", <<7, 39>>), Scalar("Int16", <<1>>), Scalar("Int32", <<2>>),
     Scalar("Int64", <<3>>), Scalar("Float32", <<4>>), Scalar("Float64", <<5>>),
     Scalar("BigInt", <<1230000000>>), Scalar("Decimal", <<1, 7>>),
     Scalar("Bool", <<1>>), Scalar("Datetime", <<11>>), Scalar("LocalDatetime", <<12>>),
     Scalar("LocalDate", <<13>>), Scalar("LocalTime", <<14>>), Scalar("Duration", <<15>>),
     Scalar("Json", <<123, 125>>), Scalar("Enum", <<114, 101, 100>>)}

Leaves(n) == [i \in 1..n |-> LeafVal]

\* a Set, Array or Tuple of 0..MaxItems scalars
Flat(tag) == { Coll(tag, Leaves(n)) : n \in 0..MaxItems }

\* the named tuples: s field descriptors paired with f values
TupleFieldNames == <<"a", "b", "c", "d">>
NamedTuples ==
    { Shaped("NamedTuple",
             [i \in 1..s |-> ShapeElement(TupleFieldNames[i], FALSE, FALSE)],
             Leaves(f)) : s \in 0..MaxFields, f \in 0..MaxFields }

\* the elements of the nested collections
Kids ==
    {LeafVal, Coll("Set", Leaves(MaxItems)), Coll("Array", Leaves(1)),
     Coll("Tuple", Leaves(MaxItems))}

Nested ==
    { Coll(tag, items) : tag \in SeqTags,
                         items \in UNION { [1..n -> Kids] : n \in 1..MaxItems } }

\* a third level: a collection of one nested Set or Array
Deep ==
    { Coll(tag, <<k>>) : tag \in {"Set", "Array"},
                         k \in { x \in Nested : x.tag # "Tuple" } }

\* the field descriptors of the objects, and the values each is paired with
ObjectElements ==
    {ShapeElement("id", TRUE, FALSE), ShapeElement("id", FALSE, FALSE),
     ShapeElement("__tname__", TRUE, FALSE), ShapeElement("name", FALSE, FALSE),
     ShapeElement("name", FALSE, TRUE)}

FieldValues(fld) ==
    IF fld.name = "id" THEN {<<Scalar("Uuid", <<16>>)>>}
    ELSE IF fld.name = "__tname__"
    THEN {<<>>, <<Scalar("Str", <<84>>)>>, <<LeafVal>>}
    ELSE IF fld.flag_link_property THEN {<<>>}
    ELSE {<<LeafVal>>, <<Coll("Set", Leaves(MaxItems))>>}

ObjectShapes == UNION { [1..n -> ObjectElements] : n \in 0..MaxFields }

\* the objects whose shape and values have the same length
PairedObjects ==
    UNION { { Shaped("Object", es, fs) :
                fs \in { f \in [1..Len(es) -> UNION { FieldValues(e) : e \in ObjectElements }] :
                           \A i \in 1..Len(es) : f[i] \in FieldValues(es[i]) } }
            : es \in ObjectShapes }

Front(s) == SubSeq(s, 1, Len(s) - 1)

\* the objects with one value or one field descriptor too few
UnpairedObjects ==
    { Shaped("Object", o.shape.elements, Front(o.fields)) :
        o \in { x \in PairedObjects : x.fields # <<>> } }
    \cup { Shaped("Object", Front(o.shape.elements), o.fields) :
        o \in { x \in PairedObjects : x.fields # <<>> } }

\* a Set of objects, as a query returns them
ObjectSets ==
    { Coll("Set", [i \in 1..MaxItems |-> o]) :
        o \in { x \in PairedObjects : Len(x.fields) = 1 } }

\* the values under render: None, and Some of every value above
RootValues ==
    {<<>>} \cup
    { <<v>> : v \in ScalarVals \cup Flat("Set") \cup Flat("Array") \cup Flat("Tuple")
                    \cup NamedTuples \cup Nested \cup Deep
                    \cup PairedObjects \cup UnpairedObjects \cup ObjectSets }

\* what max_items() may answer
Limits == {<<>>} \cup { <<c>> : c \in 0..MaxCap }

---------------------------------------------------------------------------
(* The walk: one action per Formatter call or step of format().            *)

\* a format() call on entry
Frame(val, path) ==
    [val |-> val, path |-> path, pc |-> "enter", i |-> 0, n |-> 0,
     call |-> 0, err |-> 0, fallback |-> FALSE]

Top == stack[Len(stack)]

Running == result.state = "running" /\ stack # <<>>

\* the calls after the innermost format() calls op(a) and the call returns
\* Ok (ok) or the error named after the call
Emit(op, a, ok) ==
    Append(calls, [op |-> op, path |-> Top.path, a |-> a,
                   res |-> IF ok THEN "ok" ELSE "err",
                   err |-> IF ok THEN 0 ELSE Len(calls) + 1])

\* the error of child.format(prn) dropped instead of returned with `?`
AfterItemIgnoringErr(ok) == "comma"

\* comma() called between the items of a Tuple only, not after the last
AfterItemNoTrailingComma(ok) ==
    IF ~ok THEN "failed"
    ELSE LET body == stack[Len(stack) - 1]
         IN  IF body.val[1].tag = "Tuple" /\ body.i = Len(body.val[1].items)
             THEN "end" ELSE "comma"

\* item.format(prn)?: the body goes on to comma(), or returns the error
AfterItem(ok) == IF ok THEN "comma" ELSE "failed"

\* a Formatter call followed by `?`: the body goes on, or returns the error
AfterCall(ok, next) == IF ok THEN next ELSE "failed"

\* the innermost format() returns Ok (ok) or Err(e) to its caller
Return(ok, e) ==
    IF Len(stack) = 1
    THEN /\ stack' = <<>>
         /\ result' = [state |-> IF ok THEN "ok" ELSE "err", err |-> IF ok THEN 0 ELSE e]
    ELSE /\ stack' = [Front(stack) EXCEPT ![Len(stack) - 1] =
                        [@ EXCEPT !.pc = AfterItem(ok), !.err = IF ok THEN 0 ELSE e]]
         /\ UNCHANGED result

\* the innermost format() moves on within its body
Goto(pc, i, n, err) ==
    /\ stack' = [stack EXCEPT ![Len(stack)] =
                    [@ EXCEPT !.pc = pc, !.i = i, !.n = n, !.err = err]]
    /\ UNCHANGED result

\* the innermost format() calls format() on a child
Descend(val, i) ==
    /\ stack' = Append([stack EXCEPT ![Len(stack)] = [@ EXCEPT !.pc = "item"]],
                       Frame(val, Append(Top.path, i)))
    /\ UNCHANGED <<calls, result>>

Unchanged ==
    UNCHANGED <<arg, ret, root, max_items, expand_strings, implicit_properties, first,
                installvars>>

\* the variants met in the render of an Option<Value>
RECURSIVE TagsIn(_)
TagsIn(opt) ==
    IF opt = <<>> THEN {}
    ELSE LET v == opt[1]
         IN  {v.tag} \cup
             (CASE v.tag \in SeqTags ->
                     UNION { TagsIn(<<v.items[i]>>) : i \in DOMAIN v.items }
                [] v.tag = "Object" ->
                     UNION { TagsIn(v.fields[i]) : i \in 1..ZipLen(v) }
                [] v.tag = "NamedTuple" ->
                     UNION { TagsIn(<<v.fields[i]>>) : i \in 1..ZipLen(v) }
                [] OTHER -> {})

\* a query of the Formatter takes every answer where the render of the value
\* can consult it: max_items() in a Set or Array body, expand_strings() for a
\* Str, implicit_properties() in an Object body
InitWalk ==
    /\ arg = [fn |-> "none"] /\ ret = <<>>
    /\ root \in RootValues
    /\ max_items \in IF TagsIn(root) \cap {"Set", "Array"} # {}
                     THEN Limits ELSE {<<>>, <<0>>}
    /\ expand_strings \in IF "Str" \in TagsIn(root) THEN BOOLEAN ELSE {FALSE}
    /\ implicit_properties \in IF "Object" \in TagsIn(root) THEN BOOLEAN ELSE {FALSE}
    /\ stack = <<Frame(root, <<>>)>>
    /\ calls = <<>>
    /\ result = [state |-> "running", err |-> 0]
    /\ first = <<>>
    /\ InstallIdle

\* None => prn.nil()
FormatNil ==
    /\ Running /\ Top.pc = "enter" /\ Top.val = <<>>
    /\ \E ok \in BOOLEAN :
          /\ calls' = Emit("nil", <<>>, ok)
          /\ Return(ok, Len(calls) + 1)
    /\ Unchanged

\* the const_scalar arms
FormatScalar ==
    /\ Running /\ Top.pc = "enter" /\ Top.val # <<>>
    /\ Top.val[1].tag \in ConstScalarTags
    /\ \E ok \in BOOLEAN :
          /\ calls' = Emit("const_scalar", ScalarText(Top.val[1], expand_strings), ok)
          /\ Return(ok, Len(calls) + 1)
    /\ Unchanged

\* the typed arms
FormatTyped ==
    /\ Running /\ Top.pc = "enter" /\ Top.val # <<>>
    /\ Top.val[1].tag \in TypedTags
    /\ \E ok \in BOOLEAN :
          /\ calls' = Emit("typed", <<TypedName(Top.val[1]), TypedText(Top.val[1])>>, ok)
          /\ Return(ok, Len(calls) + 1)
    /\ Unchanged

\* prn.set / object / tuple / named_tuple / array: the backend opens the
\* container and invokes the body, or fails before it does
CallContainer ==
    /\ Running /\ Top.pc = "enter" /\ Top.val # <<>>
    /\ Top.val[1].tag \in SeqTags \cup ShapedTags
    /\ LET v == Top.val[1]
           a == IF v.tag = "Object" THEN TypeName(v) ELSE <<>>
           k == Len(calls) + 1
           call(res) == [op |-> ContainerOp(v), path |-> Top.path, a |-> a,
                         res |-> res, err |-> IF res = "err" THEN k ELSE 0]
       IN  \/ /\ calls' = Append(calls, call("pending"))
              /\ stack' = [stack EXCEPT ![Len(stack)] =
                              [@ EXCEPT !.pc = "body", !.i = 1, !.n = 0, !.call = k]]
              /\ UNCHANGED result
           \/ /\ calls' = Append(calls, call("err"))
              /\ Return(FALSE, k)
    /\ Unchanged

\* Set, Array, Tuple: item.format(prn) for the next item
SeqItem ==
    /\ Running /\ Top.pc = "body"
    /\ Top.val[1].tag \in SeqTags
    /\ Top.i <= SeqBound(Top.val[1], max_items)
    /\ Descend(<<Top.val[1].items[Top.i]>>, Top.i)
    /\ Unchanged

\* prn.comma() after an element; n += 1 in the main pass of an Object
Comma ==
    /\ Running /\ Top.pc = "comma"
    /\ \E ok \in BOOLEAN :
          /\ calls' = Emit("comma", <<>>, ok)
          /\ Goto(AfterCall(ok, IF Top.fallback THEN "end" ELSE "body"),
                  Top.i + 1,
                  IF Top.val[1].tag = "Object" /\ ~Top.fallback THEN Top.n + 1 ELSE Top.n,
                  IF ok THEN 0 ELSE Len(calls) + 1)
    /\ Unchanged

\* Set, Array: prn.ellipsis() after the loop when items.len() > limit
Ellipsis ==
    /\ Running /\ Top.pc = "body"
    /\ Top.val[1].tag \in {"Set", "Array"}
    /\ Top.i > SeqBound(Top.val[1], max_items)
    /\ NeedsEllipsis(max_items, Len(Top.val[1].items))
    /\ \E ok \in BOOLEAN :
          /\ calls' = Emit("ellipsis", <<>>, ok)
          /\ Goto(AfterCall(ok, "end"), Top.i, Top.n, IF ok THEN 0 ELSE Len(calls) + 1)
    /\ Unchanged

\* NamedTuple: prn.tuple_field(&fld.name) for the next pair
TupleField ==
    /\ Running /\ Top.pc = "body"
    /\ Top.val[1].tag = "NamedTuple"
    /\ Top.i <= ZipLen(Top.val[1])
    /\ \E ok \in BOOLEAN :
          /\ calls' = Emit("tuple_field", Top.val[1].shape.elements[Top.i].name, ok)
          /\ Goto(AfterCall(ok, "value"), Top.i, Top.n, IF ok THEN 0 ELSE Len(calls) + 1)
    /\ Unchanged

\* Object: the next pair is implicit and implicit_properties() is false
ObjectSkip ==
    /\ Running /\ Top.pc = "body"
    /\ Top.val[1].tag = "Object"
    /\ Top.i <= ZipLen(Top.val[1])
    /\ ~FieldRendered(Top.val[1].shape.elements[Top.i], implicit_properties)
    /\ Goto("body", Top.i + 1, Top.n, 0)
    /\ UNCHANGED calls
    /\ Unchanged

\* Object: prn.object_field(label) for the next rendered pair
ObjectField ==
    /\ Running /\ Top.pc = "body"
    /\ Top.val[1].tag = "Object"
    /\ Top.i <= ZipLen(Top.val[1])
    /\ FieldRendered(Top.val[1].shape.elements[Top.i], implicit_properties)
    /\ \E ok \in BOOLEAN :
          /\ calls' = Emit("object_field", FieldLabel(Top.val[1].shape.elements[Top.i]), ok)
          /\ Goto(AfterCall(ok, "value"), Top.i, Top.n, IF ok THEN 0 ELSE Len(calls) + 1)
    /\ Unchanged

\* Object: n == 0 after the loop and a pair named id is found
ObjectIdField ==
    /\ Running /\ Top.pc = "body"
    /\ Top.val[1].tag = "Object"
    /\ Top.i > ZipLen(Top.val[1])
    /\ Top.n = 0
    /\ FindId(Top.val[1]) # 0
    /\ \E ok \in BOOLEAN :
          /\ calls' = Emit("object_field",
                           IdLabel(Top.val[1].shape.elements[FindId(Top.val[1])]), ok)
          /\ stack' = [stack EXCEPT ![Len(stack)] =
                          [@ EXCEPT !.pc = AfterCall(ok, "value"),
                                    !.i = FindId(Top.val[1]),
                                    !.fallback = TRUE,
                                    !.err = IF ok THEN 0 ELSE Len(calls) + 1]]
          /\ UNCHANGED result
    /\ Unchanged

\* Object, NamedTuple: value.format(prn) for the pair whose label was emitted
FieldValue ==
    /\ Running /\ Top.pc = "value"
    /\ Descend(IF Top.val[1].tag = "Object"
               THEN Top.val[1].fields[Top.i]
               ELSE <<Top.val[1].fields[Top.i]>>, Top.i)
    /\ Unchanged

\* the body has nothing left to do and returns Ok(())
BodyDone ==
    \/ Top.pc = "end"
    \/ /\ Top.pc = "body"
       /\ LET v == Top.val[1]
          IN  CASE v.tag \in {"Set", "Array"} ->
                     /\ Top.i > SeqBound(v, max_items)
                     /\ ~NeedsEllipsis(max_items, Len(v.items))
                [] v.tag = "Tuple" -> Top.i > SeqBound(v, max_items)
                [] v.tag = "NamedTuple" -> Top.i > ZipLen(v)
                [] v.tag = "Object" ->
                     /\ Top.i > ZipLen(v)
                     /\ (Top.n # 0 \/ FindId(v) = 0)

\* the container call returns: the error of the body, or after a body that
\* returned Ok, Ok or the error of closing the container
ContainerReturn ==
    /\ Running
    /\ \/ /\ BodyDone
          /\ \E ok \in BOOLEAN :
                /\ calls' = [calls EXCEPT ![Top.call] =
                                [@ EXCEPT !.res = IF ok THEN "ok" ELSE "err",
                                          !.err = IF ok THEN 0 ELSE Top.call]]
                /\ Return(ok, Top.call)
       \/ /\ Top.pc = "failed"
          /\ calls' = [calls EXCEPT ![Top.call] =
                          [@ EXCEPT !.res = "err", !.err = Top.err]]
          /\ Return(FALSE, Top.err)
    /\ Unchanged

NextWalk ==
    \/ FormatNil
    \/ FormatScalar
    \/ FormatTyped
    \/ CallContainer
    \/ SeqItem
    \/ Comma
    \/ Ellipsis
    \/ TupleField
    \/ ObjectSkip
    \/ ObjectField
    \/ ObjectIdField
    \/ FieldValue
    \/ ContainerReturn

Spec == InitWalk /\ [][NextWalk]_vars

\* format() is called on the same value again, with a Formatter that answers
\* its queries as the first one did, after a render that returned Ok
RenderAgain ==
    /\ result.state = "ok" /\ first = <<>>
    /\ first' = calls
    /\ calls' = <<>>
    /\ stack' = <<Frame(root, <<>>)>>
    /\ result' = [state |-> "running", err |-> 0]
    /\ UNCHANGED <<arg, ret, root, max_items, expand_strings, implicit_properties,
                   installvars>>

\* a step of a render in which no Formatter call returns an error
WalkOk == NextWalk /\ \A k \in DOMAIN calls' : calls'[k].res # "err"

NextTwice ==
    \/ WalkOk
    \/ RenderAgain

\* two renders of one value by Formatters that never fail
SpecTwice == InitWalk /\ [][NextTwice]_vars

---------------------------------------------------------------------------
(* Properties of the walk, checked under Spec.                             *)

\* the Formatter calls a format() call starts with
ValueOps ==
    {"nil", "const_scalar", "typed", "set", "array", "tuple", "named_tuple", "object"}

\* the Option<Value> at a path of child indexes below opt
RECURSIVE At(_, _)
At(opt, path) ==
    IF path = <<>> THEN opt
    ELSE LET v == opt[1]
             child == IF v.tag \in SeqTags THEN <<v.items[Head(path)]>>
                      ELSE IF v.tag = "Object" THEN v.fields[Head(path)]
                      ELSE <<v.fields[Head(path)]>>
         IN  At(child, Tail(path))

\* the calls made with `op` by the body of the container at path p
CallsAt(op, p) == { k \in DOMAIN calls : calls[k].op = op /\ calls[k].path = p }

\* the calls that start the render of child i of the container at path p
StartsOf(p, i) ==
    { k \in DOMAIN calls : calls[k].op \in ValueOps /\ calls[k].path = Append(p, i) }

\* the children of the container at path p whose render has started
Rendered(p) ==
    { calls[k].path[Len(p) + 1] :
        k \in { j \in DOMAIN calls :
                  /\ calls[j].op \in ValueOps
                  /\ Len(calls[j].path) = Len(p) + 1
                  /\ SubSeq(calls[j].path, 1, Len(p)) = p } }

\* the calls made below the container at path p: by its body or a child's
Within(p) ==
    { k \in DOMAIN calls :
        \/ /\ Len(calls[k].path) > Len(p)
           /\ SubSeq(calls[k].path, 1, Len(p)) = p
        \/ calls[k].path = p /\ calls[k].op \notin ValueOps }

\* shape and values have the same length
Paired(v) == Len(v.shape.elements) = Len(v.fields)

\* C1: every Set or Array, at any depth, with N elements under the cap
\* max_items() = C renders only its first C elements when C < N, each once,
\* and then calls ellipsis() once, after everything else of its body; with
\* C >= N or no cap it renders all N and never calls ellipsis().  The count
\* is per container: what a sibling, parent or child rendered does not
\* enter into it.
C1_TruncationPerContainer ==
    \A k \in DOMAIN calls :
        calls[k].op \in {"set", "array"} =>
            LET p == calls[k].path
                N == Len(At(root, p)[1].items)
                E == CallsAt("ellipsis", p)
                R == Rendered(p)
                cut == max_items # <<>> /\ max_items[1] < N
                C == IF cut THEN max_items[1] ELSE N
            IN  /\ R \subseteq 1..C
                /\ \A i \in R : Cardinality(StartsOf(p, i)) = 1
                /\ Cardinality(E) <= 1
                /\ ~cut => E = {}
                /\ \A e \in E :
                      /\ R = 1..C
                      /\ Cardinality(CallsAt("comma", p)) = C
                      /\ \A j \in Within(p) : j <= e
                /\ calls[k].res = "ok" =>
                      /\ R = 1..C
                      /\ cut => Cardinality(E) = 1

\* two sibling Sets under max_items() = 1 each render one element and one
\* ellipsis, and the Tuple that holds them both
C1_Witness ==
    /\ result.state = "ok"
    /\ max_items = <<1>>
    /\ root = <<Coll("Tuple", <<Coll("Set", Leaves(MaxItems)), Coll("Set", Leaves(MaxItems))>>)>>
    /\ Rendered(<<>>) = {1, 2}
    /\ Rendered(<<1>>) = {1} /\ Cardinality(CallsAt("ellipsis", <<1>>)) = 1
    /\ Rendered(<<2>>) = {1} /\ Cardinality(CallsAt("ellipsis", <<2>>)) = 1

\* C2: a Tuple with N elements, and a NamedTuple with N fields paired with
\* N values, renders no element beyond these, never calls ellipsis(), and
\* once its container call has returned Ok has rendered all N, each once,
\* whatever max_items() answers.
C2_TuplesIgnoreCap ==
    \A k \in DOMAIN calls :
        LET p == calls[k].path
            v == At(root, p)[1]
        IN  (\/ calls[k].op = "tuple"
             \/ calls[k].op = "named_tuple" /\ Paired(v)) =>
                LET N == IF v.tag = "Tuple" THEN Len(v.items) ELSE Len(v.fields)
                    R == Rendered(p)
                IN  /\ R \subseteq 1..N
                    /\ \A i \in R : Cardinality(StartsOf(p, i)) = 1
                    /\ CallsAt("ellipsis", p) = {}
                    /\ calls[k].res = "ok" =>
                          /\ R = 1..N
                          /\ Cardinality(CallsAt("comma", p)) = N
                          /\ v.tag = "NamedTuple" =>
                                Cardinality(CallsAt("tuple_field", p)) = N

\* a Tuple of MaxItems elements rendered in full under max_items() = 0
C2_Witness ==
    /\ result.state = "ok"
    /\ max_items = <<0>>
    /\ root = <<Coll("Tuple", Leaves(MaxItems))>>
    /\ Rendered(<<>>) = 1..MaxItems
    /\ CallsAt("ellipsis", <<>>) = {}

\* C3: an Object whose shape fields are all implicit (each paired with a
\* value), rendered while implicit_properties() is false: with a field named
\* id, object_field is called at most once, for id, and once the object call
\* has returned Ok exactly once, followed by that field's value and one
\* comma; without a field named id, the body makes no call at all.
C3_ImplicitObjectFallback ==
    \A k \in DOMAIN calls :
        LET p == calls[k].path
            v == At(root, p)[1]
        IN  (/\ calls[k].op = "object"
             /\ ~implicit_properties
             /\ Paired(v)
             /\ \A i \in DOMAIN v.shape.elements : v.shape.elements[i].flag_implicit) =>
                LET F == CallsAt("object_field", p)
                    ids == { i \in DOMAIN v.shape.elements : v.shape.elements[i].name = "id" }
                IN  IF ids # {}
                    THEN /\ Cardinality(F) <= 1
                         /\ \A f \in F : calls[f].a.text = "id"
                         /\ Rendered(p) \subseteq ids
                         /\ calls[k].res = "ok" =>
                               /\ Cardinality(F) = 1
                               /\ Cardinality(Rendered(p)) = 1
                               /\ \A i \in Rendered(p) : Cardinality(StartsOf(p, i)) = 1
                               /\ Cardinality(CallsAt("comma", p)) = 1
                               /\ \A f \in F, c \in CallsAt("comma", p), i \in Rendered(p) :
                                     \A s \in StartsOf(p, i) : f < s /\ s < c
                    ELSE Within(p) = {}

\* the object {__tname__, id}, both implicit, renders the one field id
C3_Witness ==
    /\ result.state = "ok"
    /\ ~implicit_properties
    /\ root = <<Shaped("Object",
                       <<ShapeElement("__tname__", TRUE, FALSE), ShapeElement("id", TRUE, FALSE)>>,
                       <<<<Scalar("Str", <<84>>)>>, <<Scalar("Uuid", <<16>>)>>>>)>>
    /\ Cardinality(CallsAt("object_field", <<>>)) = 1
    /\ Rendered(<<>>) = {2}

\* C4: the render of an Object or NamedTuple whose shape and values differ
\* in length fails: no such container call returns Ok.
C4_MismatchFails ==
    \A k \in DOMAIN calls :
        (/\ calls[k].op \in {"object", "named_tuple"}
         /\ ~Paired(At(root, calls[k].path)[1])) => calls[k].res # "ok"

\* the calls that returned an error
Failed(cs) == { k \in DOMAIN cs : cs[k].res = "err" }

\* C5: once a Formatter call has returned an error the walk makes no further
\* call; every call that then returns, and the outermost format(), return
\* that same error; and a walk that returns Ok has seen no call fail.
C5_ErrorAborts ==
    [][/\ Failed(calls) # {} => Len(calls') = Len(calls)
       /\ \A j \in Failed(calls'), k \in Failed(calls') : calls'[j].err = calls'[k].err
       /\ \A k \in Failed(calls') :
             /\ calls'[k].err \in Failed(calls')
             /\ calls'[k].err >= k
       /\ result'.state = "err" =>
             /\ Failed(calls') # {}
             /\ \A k \in Failed(calls') : calls'[k].err = result'.err
             /\ \A k \in DOMAIN calls' : calls'[k].res # "pending"
       /\ result'.state = "ok" => Failed(calls') = {}
      ]_vars

\* the first element of a Tuple fails: its comma, the second element and its
\* comma are never called, and the error of const_scalar is what is returned
C5_Witness ==
    /\ result.state = "err"
    /\ root = <<Coll("Tuple", Leaves(MaxItems))>>
    /\ Len(calls) = 2
    /\ calls[1].op = "tuple" /\ calls[1].res = "err" /\ calls[1].err = 2
    /\ calls[2].op = "const_scalar" /\ calls[2].res = "err" /\ calls[2].err = 2
    /\ result.err = 2

\* the Formatter methods that open a container
ContainerOps == {"set", "array", "tuple", "named_tuple", "object"}

\* call k belongs to the render of the value at path q
IsUnder(k, q) ==
    Len(calls[k].path) >= Len(q) /\ SubSeq(calls[k].path, 1, Len(q)) = q

\* the calls that start the render of an element of the container at path p
ElementStarts(p) ==
    { k \in DOMAIN calls :
        /\ calls[k].op \in ValueOps
        /\ Len(calls[k].path) = Len(p) + 1
        /\ IsUnder(k, p) }

\* the last call so far of the element whose render call s starts
LastOf(s) ==
    CHOOSE e \in s..Len(calls) :
        /\ IsUnder(e, calls[s].path)
        /\ \A j \in (e + 1)..Len(calls) : ~IsUnder(j, calls[s].path)

\* C13: in the body of every Set, Array, Tuple, NamedTuple and Object, a
\* comma() call comes right after the last call of an element whose render
\* has returned Ok, once per element, and is followed within the body by
\* nothing but the next label, the next element or the ellipsis; while no
\* call has failed every rendered element, the last included, is followed at
\* once by its comma(), and when the container call returns Ok the body has
\* called comma() as many times as it rendered elements.
C13_CommaAfterEveryElement ==
    \A k \in DOMAIN calls :
        calls[k].op \in ContainerOps =>
            LET p == calls[k].path
                S == ElementStarts(p)
                M == CallsAt("comma", p)
            IN  /\ Cardinality(M) <= Cardinality(S)
                /\ \A c \in M :
                      /\ c - 1 \in DOMAIN calls
                      /\ IsUnder(c - 1, p)
                      /\ Len(calls[c - 1].path) > Len(p)
                      /\ \A s \in StartsOf(p, calls[c - 1].path[Len(p) + 1]) :
                            /\ calls[s].res = "ok"
                            /\ LastOf(s) = c - 1
                            /\ \A m \in M : ~(s < m /\ m < c)
                      /\ (c + 1 \in DOMAIN calls /\ IsUnder(c + 1, p)) =>
                            \/ c + 1 \in S
                            \/ /\ calls[c + 1].path = p
                               /\ calls[c + 1].op \in {"tuple_field", "object_field", "ellipsis"}
                /\ Failed(calls) = {} =>
                      \A s \in S :
                          /\ LastOf(s) < Len(calls) =>
                                /\ calls[s].res = "ok"
                                /\ LastOf(s) + 1 \in M
                          /\ calls[k].res = "ok" => LastOf(s) < Len(calls)
                /\ calls[k].res = "ok" => Cardinality(M) = Cardinality(S)

\* an Array of a Set of MaxItems elements and a scalar: a comma after each
\* element of the Set, after the Set and after the scalar, which ends the render
C13_Witness ==
    /\ result.state = "ok"
    /\ max_items = <<MaxItems>>
    /\ root = <<Coll("Array", <<Coll("Set", Leaves(MaxItems)), LeafVal>>)>>
    /\ Cardinality(CallsAt("comma", <<>>)) = 2
    /\ Cardinality(CallsAt("comma", <<1>>)) = MaxItems
    /\ calls[Len(calls)].op = "comma"

\* the texts of the fields of v named __tname__ whose paired value is a Str
TypeNameTexts(v) ==
    { v.fields[i][1].v :
        i \in { j \in 1..ZipLen(v) :
                  /\ v.shape.elements[j].name = "__tname__"
                  /\ v.fields[j] # <<>>
                  /\ v.fields[j][1].tag = "Str" } }

\* C14: the type name handed to object() is the text of a field named
\* __tname__ whose paired value is a Str whenever the shape has such a field,
\* also when several fields are named __tname__, and is absent otherwise.
C14_TypeNameOfStrField ==
    \A k \in DOMAIN calls :
        calls[k].op = "object" =>
            LET T == TypeNameTexts(At(root, calls[k].path)[1])
            IN  IF T # {}
                THEN calls[k].a # <<>> /\ calls[k].a[1] \in T
                ELSE calls[k].a = <<>>

\* C15: in the body of an Object (its shape paired with as many values),
\* with M the fields that are not implicit, or all fields when
\* implicit_properties() is true: every field is rendered at most once, as
\* object_field(label) directly followed by the value and, while no call has
\* failed, directly by comma(); a field of M is labelled with its name,
\* prefixed with @ exactly when it is a link property, and the fields of M
\* come in shape order; any other rendered field is the first one named id,
\* labelled id, and only when M is empty; and an object call that returned
\* Ok has rendered exactly M, or exactly that id field when M is empty.
C15_ObjectFieldsInOrder ==
    \A k \in DOMAIN calls :
        LET p == calls[k].path
            v == At(root, p)[1]
        IN  (calls[k].op = "object" /\ Paired(v)) =>
                LET E == v.shape.elements
                    M == { i \in DOMAIN E : ~E[i].flag_implicit \/ implicit_properties }
                    ids == { i \in DOMAIN E :
                               E[i].name = "id" /\ \A j \in 1..(i - 1) : E[j].name # "id" }
                    F == CallsAt("object_field", p)
                    R == Rendered(p)
                IN  /\ R \subseteq (IF M # {} THEN M ELSE ids)
                    /\ \A f \in F :
                          f + 1 \in DOMAIN calls => f + 1 \in ElementStarts(p)
                    /\ \A i \in R :
                          /\ Cardinality(StartsOf(p, i)) = 1
                          /\ \A s \in StartsOf(p, i) :
                                /\ s - 1 \in F
                                /\ calls[s - 1].a.text =
                                      IF i \in M /\ E[i].flag_link_property
                                      THEN "@" \o E[i].name ELSE E[i].name
                                /\ (Failed(calls) = {} /\ LastOf(s) < Len(calls)) =>
                                      /\ calls[LastOf(s) + 1].op = "comma"
                                      /\ calls[LastOf(s) + 1].path = p
                                /\ \A j \in R : \A t \in StartsOf(p, j) : i < j => s < t
                    /\ Cardinality(F) \in {Cardinality(R), Cardinality(R) + 1}
                    /\ calls[k].res = "ok" =>
                          /\ R = (IF M # {} THEN M ELSE ids)
                          /\ Cardinality(F) = Cardinality(R)
                          /\ Cardinality(CallsAt("comma", p)) = Cardinality(R)

\* the object {__tname__, @name} rendered with implicit properties: both
\* fields in shape order, the link property under the label @name
C15_Witness ==
    /\ result.state = "ok"
    /\ implicit_properties
    /\ root = <<Shaped("Object",
                       <<ShapeElement("__tname__", TRUE, FALSE), ShapeElement("name", FALSE, TRUE)>>,
                       <<<<Scalar("Str", <<84>>)>>, <<>>>>)>>
    /\ Len(calls) = 7
    /\ calls[2].op = "object_field" /\ calls[2].a.text = "__tname__"
    /\ calls[5].op = "object_field" /\ calls[5].a.text = "@name"
    /\ calls[6].op = "nil" /\ calls[7].op = "comma"

---------------------------------------------------------------------------
(* Properties of two renders of one value, checked under SpecTwice.        *)

\* the same Formatter method called with the same argument at the same place
SameCall(c, d) == c.op = d.op /\ c.a = d.a /\ c.path = d.path

---------------------------------------------------------------------------
(* The installer (src/self_install.rs): main and _main, with customize and *)
(* try_project_init, as far as they decide which questions are asked.      *)

\* the questions, named after the call that asks them
MenuPrompt == "read_choice: 1) Proceed 2) Customize 3) Cancel"
PathPrompt == "read_choice: Modify PATH variable? (Y/n)"
ProjectPrompt == "Confirm: Do you want to initialize EdgeDB server instance for the project"
EnterPrompt == "read_choice: Press the Enter key to continue"

\* cfg!(windows) && !options.no_confirm && !options.no_wait_for_exit_prompt
WaitForExit ==
    host.windows /\ ~options.no_confirm /\ ~options.no_wait_for_exit_prompt

InitInstall ==
    /\ WalkIdle
    /\ arg = [fn |-> "none"] /\ ret = <<>>
    /\ options \in [nightly: BOOLEAN, verbose: BOOLEAN, quiet: BOOLEAN,
                    no_confirm: BOOLEAN, no_modify_path: BOOLEAN,
                    no_wait_for_exit_prompt: BOOLEAN]
    /\ host \in [windows: BOOLEAN, uid: {0, 1000}, should_modify_path: BOOLEAN,
                 project: {"root_dir", "none", "found"}]
    /\ settings = [modify_path |-> FALSE]
    /\ step = "_main"
    /\ prompts = <<>>

InstallUnchanged == UNCHANGED <<fmtvars, walkvars, options, host>>

\* _main: the root check and the construction of Settings, where home_dir()
\* or get_rc_files() may fail
MainSettings ==
    /\ step = "_main"
    /\ IF ~host.windows /\ host.uid = 0
       THEN step' = "main_err" /\ UNCHANGED settings
       ELSE \/ /\ settings' = [modify_path |-> ~options.no_modify_path
                                                /\ host.should_modify_path]
               /\ step' = "describe"
            \/ step' = "main_err" /\ UNCHANGED settings
    /\ UNCHANGED prompts
    /\ InstallUnchanged

\* _main: if !options.quiet { print...; if !options.no_confirm { loop ...
Describe ==
    /\ step = "describe"
    /\ step' = IF ~options.quiet /\ ~options.no_confirm THEN "menu" ELSE "install"
    /\ UNCHANGED <<settings, prompts>>
    /\ InstallUnchanged

\* _main: one round of the menu loop; read_choice may fail
Menu ==
    /\ step = "menu"
    /\ Len(prompts) < MaxPrompts
    /\ prompts' = Append(prompts, MenuPrompt)
    /\ \E choice \in {"", "1", "2", "3", "Err"} :
          step' = CASE choice \in {"", "1"} -> "install"
                  [] choice = "2" -> "customize"
                  [] choice = "Err" -> "main_err"
                  [] OTHER -> "exit"
    /\ UNCHANGED settings
    /\ InstallUnchanged

\* customize: one round of its loop, or nothing to customize
Customize ==
    /\ step = "customize"
    /\ IF host.should_modify_path
       THEN /\ Len(prompts) < MaxPrompts
            /\ prompts' = Append(prompts, PathPrompt)
            /\ \E choice \in {"y", "", "n", "x", "Err"} :
                  CASE choice \in {"y", ""} ->
                         settings' = [settings EXCEPT !.modify_path = TRUE] /\ step' = "menu"
                    [] choice = "n" ->
                         settings' = [settings EXCEPT !.modify_path = FALSE] /\ step' = "menu"
                    [] choice = "Err" -> step' = "main_err" /\ UNCHANGED settings
                    [] OTHER -> step' = "customize" /\ UNCHANGED settings
       ELSE step' = "menu" /\ UNCHANGED <<settings, prompts>>
    /\ InstallUnchanged

\* _main: the binary is copied and PATH is set up; any of the steps may fail
Install ==
    /\ step = "install"
    /\ step' \in {"project_init", "main_err"}
    /\ UNCHANGED <<settings, prompts>>
    /\ InstallUnchanged

\* _main: init_result, and try_project_init when it is called; whatever it
\* returns is printed by print_post_install_message and _main returns Ok
ProjectInit ==
    /\ step = "project_init"
    /\ IF options.no_confirm
       THEN UNCHANGED prompts
       ELSE \/ UNCHANGED prompts    \* current_dir() or search_dir() fails
            \/ host.project # "found" /\ UNCHANGED prompts
            \/ host.project = "found" /\ prompts' = Append(prompts, ProjectPrompt)
    /\ step' = "main_ok"
    /\ UNCHANGED settings
    /\ InstallUnchanged

\* main: the Ok arm
MainOk ==
    /\ step = "main_ok"
    /\ IF WaitForExit
       THEN /\ prompts' = Append(prompts, EnterPrompt)
            /\ step' \in {"returned Ok", "returned Err"}
       ELSE step' = "returned Ok" /\ UNCHANGED prompts
    /\ UNCHANGED settings
    /\ InstallUnchanged

\* main: the Err arm
MainErr ==
    /\ step = "main_err"
    /\ IF WaitForExit
       THEN /\ prompts' = Append(prompts, EnterPrompt)
            /\ step' \in {"exit", "returned Err"}
       ELSE step' = "returned Err" /\ UNCHANGED prompts
    /\ UNCHANGED settings
    /\ InstallUnchanged

NextInstall ==
    \/ MainSettings
    \/ Describe
    \/ Menu
    \/ Customize
    \/ Install
    \/ ProjectInit
    \/ MainOk
    \/ MainErr

SpecInstall == InitInstall /\ [][NextInstall]_vars

\* C12: run with --quiet the installer asks nothing: no read_choice and no
\* Confirm question is reached, whatever the other flags are.
C12_QuietNeverPrompts == options.quiet => prompts = <<>>

====
